---- MODULE Spec2Model ----
(***************************************************************************)
(* State-machine model of SlicerNNUnet's API segmentation logic            *)
(* (SlicerNNUNetLib/ApiSegmentationLogic.py) and of the widget that drives *)
(* it (SlicerNNUNetLib/Widget.py).                                         *)
(*                                                                         *)
(* Python runs every call on one thread.  A call is a frame on `stack`;    *)
(* the top frame is the one executing.  slicer.app.processEvents() lets    *)
(* the host deliver pending user events while a frame is suspended inside  *)
(* it: such a frame has pumping = TRUE and handlers may be pushed above    *)
(* it.  Signals are synchronous callback dispatches: emitting one pushes   *)
(* the subscribed widget handler (when a widget is connected).             *)
(***************************************************************************)
EXTENDS Naturals, Sequences, FiniteSets, TLC

\* ------------------------------------------------------------------ bounds
MaxUrlLen == 3
MaxPumpEvents == 1

\* ------------------------------------------------------------- value sets
None == "none"
NoFile == "nofile"
\* the output file after open(out_file, 'wb') succeeded and f.write failed
Truncated == "truncated"
WriteOutcomes == {"written", "open failed", "write failed"}
Volumes == {"v1", "v2"}
FileIds == {"id1", "id2"}
Bodies == {"B1", "B2"}
Statuses == {200, 201, 500}
Chars == {"a", "/"}

RECURSIVE SeqsUpTo(_, _)
SeqsUpTo(S, n) ==
    IF n = 0 THEN {<<>>}
    ELSE LET shorter == SeqsUpTo(S, n - 1)
         IN  shorter \cup {Append(s, c) : s \in {t \in shorter : Len(t) = n - 1}, c \in S}

\* URLs a client may hand to setApiUrl
UrlInputs == SeqsUpTo(Chars, MaxUrlLen)
\* URLs typed into the widget's apiUrlLineEdit
WidgetUrls == {<<>>, <<"a">>}

\* ------------------------------------------------------- string functions
\* str.rstrip("/") one character at a time
RStripOneSlash(s) ==
    IF Len(s) > 0 /\ s[Len(s)] = "/" THEN SubSeq(s, 1, Len(s) - 1) ELSE s

RECURSIVE RStripSlash(_)
RStripSlash(s) ==
    IF Len(s) > 0 /\ s[Len(s)] = "/" THEN RStripSlash(SubSeq(s, 1, Len(s) - 1)) ELSE s

StatusText(code) ==
    CASE code = 200 -> "200"
      [] code = 201 -> "201"
      [] code = 500 -> "500"
      [] OTHER -> "0"

MsgNotConfigured == <<"API URL is not configured.">>
MsgNoFileId == <<"No file ID available. Please run inference first.">>
MsgApiError(code, text) == <<"API returned error: ", StatusText(code), " - ", text>>
MsgCommError(e) == <<"Error during API communication: ", e>>
MsgUploadError(e) == <<"Error during upload: ", e>>
MsgFileNotFound == "Segmentation file not found. API segmentation may have failed."
MsgLoadFailed(e) == <<"Failed to load segmentation: ", e>>
NoMsg == <<>>

Contains(msg, x) == \E i \in 1..Len(msg) : msg[i] = x

\* --------------------------------------------------------------- records
NoResp == [status |-> 0, header |-> None, body |-> None]
\* the server's answers: a 200 with or without an X-File-ID header, or an error
\* status with a text body
Responses ==
    [status : {200}, header : FileIds \cup {None}, body : Bodies]
    \cup [status : Statuses \ {200}, header : {None}, body : Bodies]
\* the answers and volumes tried when the logic runs under the widget
WidgetResponses ==
    [status : {200}, header : {"id1", None}, body : {"B1"}]
    \cup [status : {500}, header : {None}, body : {"B1"}]
WidgetVolumes == {"v1"}
NoSeg == [content |-> None, name |-> None]
NoPre == [file |-> NoFile, fileId |-> None, vol |-> None, seg |-> NoSeg, base |-> <<>>]

VARIABLES
    apiBaseUrl,               \* ApiSegmentationLogic._apiBaseUrl
    currentVolumeNode,        \* ApiSegmentationLogic._currentVolumeNode
    currentFileId,            \* ApiSegmentationLogic._currentFileId
    currentSegmentationNode,  \* ApiSegmentationLogic._currentSegmentationNode
    outFile,                  \* contents of nnUNetOutDir/segmentation.nii.gz
    everFinished,             \* history: some startSegmentation reached inferenceFinished()
    provenance,               \* history: which startSegmentation call the stored job id,
                              \* the output file and the current segmentation come from
    connected,                \* a Widget is subscribed to the logic's signals
    pumped,                   \* handlers dispatched inside processEvents() since the
                              \* outermost call began
    useApi,                   \* WidgetParameterNode.useApi
    paramApiUrl,              \* WidgetParameterNode.apiUrl
    inputVolume,              \* ui.inputSelector.currentNode()
    logic,                    \* Widget.logic: "local" or "api"
    isStopping,               \* Widget.isStopping
    applyVisible,             \* ui.applyButton visible
    stopVisible,              \* ui.stopButton visible
    applyEnabled,             \* ui.applyButton enabled
    selectorEnabled,          \* ui.installButton / ui.inputSelector enabled
    uploadEnabled,            \* ui.uploadButton enabled
    stack,                    \* call stack, innermost call last
    ret                       \* the frame that returned in the last step (NoFrame otherwise)

logicVars == <<apiBaseUrl, currentVolumeNode, currentFileId, currentSegmentationNode,
               outFile, everFinished, provenance>>
widgetVars == <<useApi, paramApiUrl, inputVolume, logic, isStopping, applyVisible,
                stopVisible, applyEnabled, selectorEnabled, uploadEnabled>>
env == <<connected, pumped>>
vars == <<logicVars, widgetVars, env, stack, ret>>

\* the server answers tried in this run of the program
ResponseChoices == IF connected THEN WidgetResponses ELSE Responses
\* the outcomes of writing the output file explored: all of them for a client
\* driving the logic directly, success and a failed open under the widget
WriteChoices == IF connected THEN {"written", "open failed"} ELSE WriteOutcomes

\* ---------------------------------------------------------------- frames
NewFrame(proc, pc) ==
    [proc |-> proc, pc |-> pc, pumping |-> FALSE, vol |-> None, seg |-> NoSeg,
     resp |-> NoResp, url |-> <<>>, nErr |-> 0, nFin |-> 0, nHttp |-> 0,
     errMsg |-> NoMsg, pre |-> NoPre, result |-> FALSE, threw |-> FALSE,
     excMsg |-> NoMsg, wasStopping |-> FALSE, loaded |-> FALSE, nRepErr |-> 0,
     nRepFin |-> 0, byUser |-> FALSE, stopReq |-> FALSE, sawFinish |-> FALSE,
     validated |-> FALSE, storedId |-> FALSE]
NoFrame == NewFrame(None, None)

Snapshot ==
    IF connected THEN NoPre ELSE
    [file |-> outFile, fileId |-> currentFileId, vol |-> currentVolumeNode,
     seg |-> currentSegmentationNode, base |-> apiBaseUrl]

Depth == Len(stack)
Top == stack[Depth]
\* the executing frame once a processEvents() call it may be suspended in returns
Cur == [Top EXCEPT !.pumping = FALSE]
\* the innermost call is proc, about to run the step at pc (a frame suspended
\* in processEvents() goes on when no further event is delivered)
Running(proc, pc) ==
    /\ Depth > 0
    /\ Top.proc = proc
    /\ Top.pc = pc

\* replace the top frame
SetTop(f) == [stack EXCEPT ![Depth] = f]
\* replace the top frame and call g above it
SetTopAndCall(f, g) == Append(SetTop(f), g)

\* ------------------------------------------------- ApiSegmentationLogic
SetApiUrlBroken(apiUrl) == RStripOneSlash(apiUrl)
\* setApiUrl: the value stored in _apiBaseUrl
SetApiUrl(apiUrl) == RStripSlash(apiUrl)

UrlNotConfiguredNever(base) == FALSE
\* `if not self._apiBaseUrl` (lines 60 and 112)
UrlNotConfigured(base) == base = <<>>

IsOkStatus2xx(code) == code \in 200..299
\* `response.status_code != 200` is false (lines 87 and 153)
IsOkStatus(code) == code = 200

GetPredictUrlOf(base) == base \o <<"/", "predict">>
GetPredictUrl == GetPredictUrlOf(apiBaseUrl)
GetUploadUrlOf(base, file_id) == base \o <<"/", "upload_correction", "/", file_id>>
GetUploadUrl(file_id) == GetUploadUrlOf(apiBaseUrl, file_id)


\* ------------------------------------------------------ signal dispatch
\* Signal.__call__: every subscriber is called synchronously.  With a Widget
\* connected the handler runs as a new frame above the emitting frame.
HandlerFrame(proc, msg) ==
    [NewFrame(proc, "entry") EXCEPT !.errMsg = msg, !.wasStopping = isStopping]

\* self.errorOccurred(msg), then continue the emitting frame f at nextpc
EmitError(f, msg, nextpc) ==
    LET g == [f EXCEPT !.nErr = @ + 1, !.errMsg = msg, !.pc = nextpc]
    IN  IF connected THEN SetTopAndCall(g, HandlerFrame("onInferenceError", msg))
        ELSE SetTop(g)

\* self.inferenceFinished(), then continue the emitting frame f at nextpc
EmitFinished(f, nextpc) ==
    LET g == [f EXCEPT !.nFin = @ + 1, !.pc = nextpc]
    IN  IF connected THEN SetTopAndCall(g, HandlerFrame("onInferenceFinished", NoMsg))
        ELSE SetTop(g)

\* self.progressInfo(msg): Widget.onProgressInfo logs and calls
\* slicer.app.processEvents(); the frame stays suspended there until EndPump
EmitProgress(f, nextpc) ==
    SetTop([f EXCEPT !.pc = nextpc, !.pumping = connected])

\* ---------------------------------------------------- startSegmentation
StartFrame(volumeNode) ==
    [NewFrame("startSegmentation", "entry") EXCEPT
        !.vol = volumeNode, !.pre = Snapshot, !.url = GetPredictUrl]

\* lines 60-68: the URL guard, the volume reference, the first progress message
StartEntry ==
    /\ Running("startSegmentation", "entry")
    /\ IF UrlNotConfigured(apiBaseUrl)
       THEN /\ stack' = EmitError(Cur, MsgNotConfigured, "ret")
            /\ UNCHANGED currentVolumeNode
       ELSE /\ currentVolumeNode' = Top.vol
            /\ stack' = EmitProgress([Cur EXCEPT !.url = GetPredictUrl], "export")
    /\ ret' = NoFrame
    /\ UNCHANGED <<apiBaseUrl, currentFileId, currentSegmentationNode, outFile,
                   everFinished, provenance, widgetVars, env>>

\* lines 70-80: the volume is exported to a temporary file (which may fail, and
\* does for a missing node), then the second progress message
StartExport ==
    /\ Running("startSegmentation", "export")
    /\ \E ok \in BOOLEAN :
        /\ ok => Top.vol # None
        /\ stack' = IF ok THEN EmitProgress(Cur, "post")
                    ELSE SetTop([Cur EXCEPT !.pc = "except", !.excMsg = <<"export failed">>])
    /\ ret' = NoFrame
    /\ UNCHANGED <<logicVars, widgetVars, env>>

\* line 92: self._currentFileId = response.headers.get('X-File-ID')
StoreFileId(header, old) == header

\* history kept at line 92: the stored job id now comes from this call, made
\* for volumeNode; the output file and the current segmentation do not.  The
\* volume is recorded for a client driving the logic directly, the file and
\* the segmentation under the widget.
IdStoredBy(volumeNode) ==
    [idVolume |-> IF connected THEN None ELSE volumeNode,
     fileOfId |-> FALSE, segOfId |-> FALSE]
\* history kept at line 92: an enclosing startSegmentation call (one suspended
\* in processEvents()) no longer is the call the stored job id comes from
Superseded(s) ==
    [i \in 1..Len(s) |-> IF i < Len(s) THEN [s[i] EXCEPT !.storedId = FALSE] ELSE s[i]]
\* history kept at line 101: the output file now holds this call's answer
FileWrittenBy(f) == [provenance EXCEPT !.fileOfId = connected /\ f.storedId]
\* history kept at line 198: the current segmentation now comes from the
\* output file
SegLoadedFromFile == [provenance EXCEPT !.segOfId = provenance.fileOfId]

\* lines 81-94: the blocking POST; a transport failure raises, a status other
\* than 200 is reported, a 200 stores the X-File-ID header
StartPost ==
    /\ Running("startSegmentation", "post")
    /\ \E r \in ResponseChoices \cup {NoResp} :
        LET f == [Cur EXCEPT !.nHttp = @ + 1, !.resp = r]
        IN  IF r = NoResp
            THEN /\ stack' = SetTop([f EXCEPT !.pc = "except",
                                              !.excMsg = <<"connection failed">>])
                 /\ UNCHANGED <<currentFileId, provenance>>
            ELSE IF ~IsOkStatus(r.status)
            THEN /\ stack' = EmitError(f, MsgApiError(r.status, r.body), "ret")
                 /\ UNCHANGED <<currentFileId, provenance>>
            ELSE /\ currentFileId' = StoreFileId(r.header, currentFileId)
                 /\ provenance' = IdStoredBy(Top.vol)
                 /\ stack' = LET g == [f EXCEPT !.storedId = TRUE]
                             IN  Superseded(IF currentFileId' = None
                                            THEN EmitProgress(g, "write")
                                            ELSE SetTop([g EXCEPT !.pc = "write"]))
    /\ ret' = NoFrame
    /\ UNCHANGED <<apiBaseUrl, currentVolumeNode, currentSegmentationNode, outFile,
                   everFinished, widgetVars, env>>

\* lines 96-103: the output directory is created, the file opened for writing
\* (which creates or truncates it) and the body written, then the last progress
\* message.  mkdir or open may fail, leaving the file as it was; the write may
\* fail, leaving a truncated file behind.
StartWrite ==
    /\ Running("startSegmentation", "write")
    /\ \E outcome \in WriteChoices :
        CASE outcome = "written" ->
                /\ outFile' = Top.resp.body
                /\ provenance' = FileWrittenBy(Top)
                /\ stack' = EmitProgress(Cur, "finish")
          [] outcome = "open failed" ->
                /\ stack' = SetTop([Cur EXCEPT !.pc = "except", !.excMsg = <<"open failed">>])
                /\ UNCHANGED <<outFile, provenance>>
          [] outcome = "write failed" ->
                /\ stack' = SetTop([Cur EXCEPT !.pc = "except", !.excMsg = <<"write failed">>])
                /\ outFile' = Truncated
                /\ provenance' = FileWrittenBy(Top)
    /\ ret' = NoFrame
    /\ UNCHANGED <<apiBaseUrl, currentVolumeNode, currentFileId, currentSegmentationNode,
                   everFinished, widgetVars, env>>

\* line 104: self.inferenceFinished()
StartFinish ==
    /\ Running("startSegmentation", "finish")
    /\ stack' = EmitFinished(Cur, "ret")
    /\ everFinished' = TRUE
    /\ ret' = NoFrame
    /\ UNCHANGED <<apiBaseUrl, currentVolumeNode, currentFileId, currentSegmentationNode,
                   outFile, provenance, widgetVars, env>>

StartExceptHandlerSilent(f) == SetTop([f EXCEPT !.pc = "ret"])
\* line 107: self.errorOccurred(f"Error during API communication: {str(e)}")
StartExceptHandler(f) == EmitError(f, MsgCommError(f.excMsg[1]), "ret")

\* lines 106-108: except Exception: the error signal, then the log
StartExcept ==
    /\ Running("startSegmentation", "except")
    /\ stack' = StartExceptHandler(Cur)
    /\ ret' = NoFrame
    /\ UNCHANGED <<logicVars, widgetVars, env>>


\* --------------------------------------------------- uploadSegmentation
UploadFrame(segmentationNode) ==
    [NewFrame("uploadSegmentation", "entry") EXCEPT
        !.seg = segmentationNode, !.pre = Snapshot]

\* lines 112-122: the two guards, the upload URL, the first progress message
UploadEntry ==
    /\ Running("uploadSegmentation", "entry")
    /\ stack' =
         IF UrlNotConfigured(apiBaseUrl) THEN EmitError(Cur, MsgNotConfigured, "ret")
         ELSE IF currentFileId = None THEN EmitError(Cur, MsgNoFileId, "ret")
         ELSE EmitProgress([Cur EXCEPT !.url = GetUploadUrl(currentFileId)], "export")
    /\ ret' = NoFrame
    /\ UNCHANGED <<logicVars, widgetVars, env>>

\* lines 124-146: the labelmap export (which may fail), the form data with the
\* name of the stored volume, the second progress message
UploadExport ==
    /\ Running("uploadSegmentation", "export")
    /\ \E ok \in BOOLEAN :
        stack' = IF ok THEN EmitProgress([Cur EXCEPT !.vol = currentVolumeNode], "post")
                 ELSE SetTop([Cur EXCEPT !.pc = "except", !.excMsg = <<"export failed">>])
    /\ ret' = NoFrame
    /\ UNCHANGED <<logicVars, widgetVars, env>>

\* lines 147-158: the blocking POST to the upload URL and the handling of its answer
UploadPost ==
    /\ Running("uploadSegmentation", "post")
    /\ \E r \in ResponseChoices \cup {NoResp} :
        LET f == [Cur EXCEPT !.nHttp = @ + 1, !.resp = r]
        IN  stack' =
              IF r = NoResp
              THEN SetTop([f EXCEPT !.pc = "except", !.excMsg = <<"connection failed">>])
              ELSE IF ~IsOkStatus(r.status)
              THEN EmitError(f, MsgApiError(r.status, r.body), "ret")
              ELSE EmitProgress([f EXCEPT !.result = TRUE], "ret")
    /\ ret' = NoFrame
    /\ UNCHANGED <<logicVars, widgetVars, env>>

UploadExceptHandlerSilent(f) == SetTop([f EXCEPT !.pc = "ret"])
\* line 161: self.errorOccurred(f"Error during upload: {str(e)}")
UploadExceptHandler(f) == EmitError(f, MsgUploadError(f.excMsg[1]), "ret")

\* lines 160-163: except Exception: the error signal, the log, return False
UploadExcept ==
    /\ Running("uploadSegmentation", "except")
    /\ stack' = UploadExceptHandler(Cur)
    /\ ret' = NoFrame
    /\ UNCHANGED <<logicVars, widgetVars, env>>

\* ----------------------------------------------------- loadSegmentation
\* lines 184-200: the host loads the file and converts it; a truncated file
\* does not load
LoadExistingFile(ok) ==
    IF ~ok \/ outFile = Truncated THEN [threw |-> TRUE, excMsg |-> MsgLoadFailed("load failed"), node |-> NoSeg]
    ELSE IF currentVolumeNode = None
    THEN [threw |-> TRUE, excMsg |-> MsgLoadFailed("no volume"), node |-> NoSeg]
    ELSE [threw |-> FALSE, excMsg |-> NoMsg,
          node |-> [content |-> outFile, name |-> currentVolumeNode]]

\* lines 177-203: what loadSegmentation raises or returns; ok says whether the
\* host's load and conversion calls succeed.  Every exception is re-raised as
\* RuntimeError("Failed to load segmentation: ...").
LoadResult(ok) ==
    IF outFile = NoFile
    THEN [threw |-> TRUE, excMsg |-> MsgLoadFailed(MsgFileNotFound), node |-> NoSeg]
    ELSE LoadExistingFile(ok)

\* ------------------------------------------------- returns and the pump
\* what the caller sees when the call above it returns
Resume(caller, callee) ==
    IF caller.pumping THEN caller   \* an event handler: the event loop drops its exception
    ELSE IF caller.proc = "startSegmentation" /\ callee.proc = "onInferenceFinished"
            /\ callee.threw
    THEN [caller EXCEPT !.pc = "except", !.excMsg = callee.excMsg]
    ELSE IF caller.proc = "onUploadClicked" /\ callee.proc = "uploadSegmentation"
    THEN [caller EXCEPT !.result = callee.result, !.nHttp = callee.nHttp]
    ELSE caller

\* the innermost call returns (or raises) to its caller
Return ==
    /\ Depth > 0
    /\ Top.pc = "ret"
    /\ stack' = IF Depth = 1 THEN <<>>
                ELSE [SubSeq(stack, 1, Depth - 1) EXCEPT
                        ![Depth - 1] = Resume(stack[Depth - 1], Cur)]
    /\ ret' = Cur
    /\ pumped' = IF Depth = 1 THEN 0 ELSE pumped
    /\ UNCHANGED <<logicVars, widgetVars, connected>>

\* ------------------------------------ a client calling the logic directly
Idle == stack = <<>>

CallSetApiUrl ==
    /\ Idle
    /\ \E u \in UrlInputs :
        /\ apiBaseUrl' = SetApiUrl(u)
        /\ ret' = [NewFrame("setApiUrl", "ret") EXCEPT !.url = u]
    /\ UNCHANGED <<currentVolumeNode, currentFileId, currentSegmentationNode, outFile,
                   everFinished, provenance, widgetVars, env, stack>>

CallStartSegmentation ==
    /\ Idle
    /\ \E v \in Volumes \cup {None} : stack' = <<StartFrame(v)>>
    /\ ret' = NoFrame
    /\ UNCHANGED <<logicVars, widgetVars, env>>

CallUploadSegmentation ==
    /\ Idle
    /\ stack' = <<UploadFrame(currentSegmentationNode)>>
    /\ ret' = NoFrame
    /\ UNCHANGED <<logicVars, widgetVars, env>>

CallLoadSegmentation ==
    /\ Idle
    /\ \E ok \in BOOLEAN :
        LET r == LoadResult(ok)
        IN  /\ currentSegmentationNode' =
                 IF r.threw THEN currentSegmentationNode ELSE r.node
            /\ provenance' = IF r.threw THEN provenance ELSE SegLoadedFromFile
            /\ ret' = [NewFrame("loadSegmentation", "ret") EXCEPT
                          !.threw = r.threw, !.excMsg = r.excMsg, !.seg = r.node,
                          !.pre = Snapshot]
    /\ UNCHANGED <<apiBaseUrl, currentVolumeNode, currentFileId, outFile, everFinished,
                   widgetVars, env, stack>>

\* stopSegmentation / waitForSegmentationFinished: lines 165-173, both `pass`
CallStopSegmentation ==
    /\ Idle
    /\ ret' = NewFrame("stopSegmentation", "ret")
    /\ UNCHANGED <<logicVars, widgetVars, env, stack>>

\* ----------------------------------------------------------------- init
\* ApiSegmentationLogic.__init__ (lines 23-33) and Widget.__init__
InitLogicState ==
    /\ apiBaseUrl = <<>>
    /\ currentVolumeNode = None
    /\ currentFileId = None
    /\ currentSegmentationNode = NoSeg
    /\ outFile = NoFile
    /\ everFinished = FALSE
    /\ provenance = [idVolume |-> None, fileOfId |-> FALSE, segOfId |-> FALSE]
    /\ stack = <<>>
    /\ ret = NoFrame

InitWidgetState ==
    /\ useApi = FALSE
    /\ paramApiUrl = <<>>
    /\ inputVolume = None
    /\ logic = IF useApi THEN "api" ELSE "local"
    /\ isStopping = FALSE
    /\ applyVisible = TRUE
    /\ stopVisible = FALSE
    /\ applyEnabled = TRUE
    /\ selectorEnabled = TRUE
    /\ uploadEnabled = FALSE

\* the logic on its own, driven by a client, no Widget subscribed
InitLogic ==
    /\ InitLogicState
    /\ connected = FALSE
    /\ pumped = 0
    /\ useApi = FALSE
    /\ paramApiUrl = <<>>
    /\ inputVolume = None
    /\ logic = "local"
    /\ isStopping = FALSE
    /\ applyVisible = TRUE
    /\ stopVisible = FALSE
    /\ applyEnabled = FALSE
    /\ selectorEnabled = TRUE
    /\ uploadEnabled = FALSE

NextLogic ==
    \/ CallSetApiUrl
    \/ CallStartSegmentation
    \/ CallUploadSegmentation
    \/ CallLoadSegmentation
    \/ CallStopSegmentation
    \/ StartEntry
    \/ StartExport
    \/ StartPost
    \/ StartWrite
    \/ StartFinish
    \/ StartExcept
    \/ UploadEntry
    \/ UploadExport
    \/ UploadPost
    \/ UploadExcept
    \/ Return

SpecLogic == InitLogic /\ [][NextLogic]_vars


\* ================================================================ Widget
\* the host delivers a pending event: at the main event loop, or inside a
\* processEvents() call of a suspended frame
CanDispatch ==
    /\ connected
    /\ IF Idle THEN TRUE ELSE Top.pumping

\* an event whose handler is a call of its own: counted when it is delivered
\* inside a processEvents() call
CanDispatchHandler ==
    /\ CanDispatch
    /\ IF Idle THEN TRUE ELSE pumped < MaxPumpEvents

Dispatch(f) ==
    /\ stack' = Append(stack, f)
    /\ pumped' = IF Idle THEN 0 ELSE pumped + 1
    /\ UNCHANGED connected

SetButtonsEnabledAnySeg(isEnabled, seg) ==
    /\ selectorEnabled' = isEnabled
    /\ applyEnabled' = isEnabled
    /\ uploadEnabled' = (isEnabled /\ useApi)
\* _setButtonsEnabled (lines 174-181); seg is apiLogic.getCurrentSegmentation()
SetButtonsEnabled(isEnabled, seg) ==
    /\ selectorEnabled' = isEnabled
    /\ applyEnabled' = isEnabled
    /\ uploadEnabled' = (isEnabled /\ useApi /\ seg # NoSeg)

\* _setApplyVisible (lines 280-283)
SetApplyVisible(isVisible, seg) ==
    /\ applyVisible' = isVisible
    /\ stopVisible' = ~isVisible
    /\ SetButtonsEnabled(isVisible, seg)

\* _reportError / _reportFinished (lines 221-231): one report, shown through
\* onProgressInfo, which pumps the event queue
ReportError(f, nextpc) ==
    [f EXCEPT !.nRepErr = @ + 1, !.pc = nextpc, !.pumping = TRUE]
ReportFinished(f, nextpc) ==
    [f EXCEPT !.nRepFin = @ + 1, !.pc = nextpc, !.pumping = TRUE]
Pump(f, nextpc) == [f EXCEPT !.pc = nextpc, !.pumping = TRUE]

\* --------------------------------------------------------- user events
EvApplyClicked ==
    /\ CanDispatchHandler
    /\ applyVisible /\ applyEnabled
    /\ Dispatch(NewFrame("onApply", "entry"))
    /\ ret' = NoFrame
    /\ UNCHANGED <<logicVars, widgetVars>>

EvStopClicked ==
    /\ CanDispatchHandler
    /\ stopVisible
    /\ Dispatch([NewFrame("onStopClicked", "entry") EXCEPT !.byUser = TRUE])
    /\ ret' = NoFrame
    /\ UNCHANGED <<logicVars, widgetVars>>

\* the scene is closed: its nodes are removed (the selector falls back to no
\* node and onInputChanged runs), then EndCloseEvent calls onSceneChanged
EvSceneClosed ==
    /\ CanDispatchHandler
    /\ inputVolume' = None
    /\ applyEnabled' = FALSE
    /\ Dispatch(NewFrame("onStopClicked", "entry"))
    /\ ret' = NoFrame
    /\ UNCHANGED <<logicVars, useApi, paramApiUrl, logic, isStopping,
                   applyVisible, stopVisible, selectorEnabled, uploadEnabled>>

\* the user picks a volume: onInputChanged (lines 296-297)
EvInputChanged ==
    /\ CanDispatch
    /\ selectorEnabled
    /\ \E v \in WidgetVolumes :
        /\ v # inputVolume
        /\ inputVolume' = v
    /\ applyEnabled' = (inputVolume' # None)
    /\ ret' = NoFrame
    /\ UNCHANGED <<logicVars, env, stack, useApi, paramApiUrl, logic, isStopping,
                   applyVisible, stopVisible, selectorEnabled, uploadEnabled>>

\* the user edits apiUrlLineEdit, which is bound to the parameter node
EvApiUrlEdited ==
    /\ CanDispatch
    /\ \E u \in WidgetUrls :
        /\ u # paramApiUrl
        /\ paramApiUrl' = u
    /\ ret' = NoFrame
    /\ UNCHANGED <<logicVars, env, stack, useApi, inputVolume, logic, isStopping,
                   applyVisible, stopVisible, applyEnabled, selectorEnabled, uploadEnabled>>

UpdateModeBasedUIKeepsLogic(newUseApi) ==
    /\ logic' = logic
    /\ apiBaseUrl' = IF newUseApi THEN SetApiUrl(paramApiUrl) ELSE apiBaseUrl
    /\ uploadEnabled' = (newUseApi /\ currentSegmentationNode # NoSeg)
\* _updateModeBasedUI (lines 132-149) for the new value of useApi
UpdateModeBasedUI(newUseApi) ==
    /\ logic' = IF newUseApi THEN "api" ELSE "local"
    /\ apiBaseUrl' = IF newUseApi THEN SetApiUrl(paramApiUrl) ELSE apiBaseUrl
    /\ uploadEnabled' = (newUseApi /\ currentSegmentationNode # NoSeg)

\* the user checks the other radio button: onLocalRadioButtonToggled /
\* onApiRadioButtonToggled (lines 122-130)
EvModeToggled ==
    /\ CanDispatch
    /\ useApi' = ~useApi
    /\ UpdateModeBasedUI(useApi')
    /\ ret' = NoFrame
    /\ UNCHANGED <<currentVolumeNode, currentFileId, currentSegmentationNode, outFile,
                   everFinished, provenance, env, stack, paramApiUrl, inputVolume, isStopping,
                   applyVisible, stopVisible, applyEnabled, selectorEnabled>>

EvUploadClicked ==
    /\ CanDispatchHandler
    /\ uploadEnabled
    /\ Dispatch(NewFrame("onUploadClicked", "entry"))
    /\ ret' = NoFrame
    /\ UNCHANGED <<logicVars, widgetVars>>

\* -------------------------------------------------------------- onApply
\* lines 251-257
ApplyEntry ==
    /\ Running("onApply", "entry")
    /\ stack' = IF inputVolume = None THEN SetTop(ReportError(Cur, "ret"))
                ELSE SetTop(Pump(Cur, "mode"))
    /\ ret' = NoFrame
    /\ UNCHANGED <<logicVars, widgetVars, env>>

\* self.logic.startSegmentation(self.getCurrentVolumeNode()) (line 294); the
\* local logic starts its inference outside this model and returns
RunSegmentation(f) ==
    stack' = IF logic = "api" THEN SetTopAndCall(f, StartFrame(inputVolume))
             ELSE SetTop(f)

\* lines 259-270: API mode checks the URL and starts (the frame keeps that it
\* passed this check); local mode begins onInstall
ApplyMode ==
    /\ Running("onApply", "mode")
    /\ IF useApi
       THEN IF paramApiUrl = <<>>
            THEN /\ stack' = SetTop(ReportError(Cur, "ret"))
                 /\ UNCHANGED <<apiBaseUrl, applyVisible, stopVisible, applyEnabled,
                                selectorEnabled, uploadEnabled>>
            ELSE /\ apiBaseUrl' = SetApiUrl(paramApiUrl)
                 /\ SetApplyVisible(FALSE, currentSegmentationNode)
                 /\ RunSegmentation([Cur EXCEPT !.pc = "ret", !.validated = TRUE])
       ELSE /\ SetButtonsEnabled(FALSE, currentSegmentationNode)
            /\ stack' = SetTop(Pump(Cur, "installed"))
            /\ UNCHANGED <<apiBaseUrl, applyVisible, stopVisible>>
    /\ ret' = NoFrame
    /\ UNCHANGED <<currentVolumeNode, currentFileId, currentSegmentationNode, outFile,
                   everFinished, provenance, env, useApi, paramApiUrl, inputVolume, logic,
                   isStopping>>

\* lines 211-219 and 270-278: the install ends, with success or not and with a
\* restart needed or not
ApplyInstalled ==
    /\ Running("onApply", "installed")
    /\ \E success \in BOOLEAN, needsRestart \in BOOLEAN :
        IF ~success
        THEN /\ SetButtonsEnabled(TRUE, currentSegmentationNode)
             /\ stack' = SetTop([Cur EXCEPT !.pc = "ret"])
             /\ UNCHANGED <<applyVisible, stopVisible>>
        ELSE IF needsRestart
        THEN /\ SetButtonsEnabled(TRUE, currentSegmentationNode)
             /\ stack' = SetTop(ReportFinished(Cur, "ret"))
             /\ UNCHANGED <<applyVisible, stopVisible>>
        ELSE /\ SetApplyVisible(FALSE, currentSegmentationNode)
             /\ RunSegmentation([Cur EXCEPT !.pc = "ret"])
    /\ ret' = NoFrame
    /\ UNCHANGED <<logicVars, env, useApi, paramApiUrl, inputVolume, logic,
                   isStopping>>

\* -------------------------------------------------------- onStopClicked
\* history: a stop requested while a startSegmentation call on the stack has
\* not yet sent its request
MarkStopRequested(st) ==
    [i \in 1..Len(st) |->
        IF st[i].proc = "startSegmentation" /\ st[i].pc \in {"export", "post"}
        THEN [st[i] EXCEPT !.stopReq = TRUE]
        ELSE st[i]]

\* lines 243-246: the flag, stopSegmentation and waitForSegmentationFinished
\* (no-ops of the API logic), then processEvents()
StopEntry ==
    /\ Running("onStopClicked", "entry")
    /\ isStopping' = TRUE
    /\ stack' = IF Top.byUser THEN MarkStopRequested(SetTop(Pump(Cur, "finish")))
                ELSE SetTop(Pump(Cur, "finish"))
    /\ ret' = NoFrame
    /\ UNCHANGED <<logicVars, env, useApi, paramApiUrl, inputVolume, logic,
                   applyVisible, stopVisible, applyEnabled, selectorEnabled, uploadEnabled>>

\* lines 247-248
StopFinish ==
    /\ Running("onStopClicked", "finish")
    /\ isStopping' = FALSE
    /\ SetApplyVisible(TRUE, currentSegmentationNode)
    /\ stack' = SetTop([Cur EXCEPT !.pc = "ret"])
    /\ ret' = NoFrame
    /\ UNCHANGED <<logicVars, env, useApi, paramApiUrl, inputVolume, logic>>


\* --------------------------------------------------- onInferenceFinished
StopGuardOff == FALSE
\* `if self.isStopping` (lines 303 and 318)
StopGuard == isStopping

\* history: a finished signal was delivered while the stops on the stack had
\* isStopping set
MarkSawFinish(st) ==
    [i \in 1..Len(st) |->
        IF st[i].proc = "onStopClicked" THEN [st[i] EXCEPT !.sawFinish = TRUE]
        ELSE st[i]]

\* lines 303-308: nothing but the button reset during a stop
FinishedEntry ==
    /\ Running("onInferenceFinished", "entry")
    /\ IF StopGuard
       THEN /\ SetApplyVisible(TRUE, currentSegmentationNode)
            /\ stack' = MarkSawFinish(SetTop([Cur EXCEPT !.pc = "ret"]))
       ELSE /\ stack' = SetTop(Pump(Cur, "load"))
            /\ UNCHANGED <<applyVisible, stopVisible, applyEnabled, selectorEnabled,
                           uploadEnabled>>
    /\ ret' = NoFrame
    /\ UNCHANGED <<logicVars, env, useApi, paramApiUrl, inputVolume, logic,
                   isStopping>>

\* the local logic's loadSegmentation: a node, or a RuntimeError
LocalLoadResult(ok) ==
    IF ok THEN [threw |-> FALSE, excMsg |-> NoMsg, node |-> NoSeg]
    ELSE [threw |-> TRUE, excMsg |-> <<"local load failed">>, node |-> NoSeg]

\* lines 309-315: the active logic loads the result; a RuntimeError is
\* reported, any other exception (no current volume to name the result after)
\* leaves through the finally clause
FinishedLoad ==
    /\ Running("onInferenceFinished", "load")
    /\ \E ok \in BOOLEAN :
        LET r == IF logic = "api" THEN LoadResult(ok) ELSE LocalLoadResult(ok)
            seg == IF logic = "api" /\ ~r.threw THEN r.node ELSE currentSegmentationNode
        IN  /\ currentSegmentationNode' = seg
            /\ provenance' = IF logic = "api" /\ ~r.threw THEN SegLoadedFromFile
                              ELSE provenance
            /\ IF r.threw
               THEN /\ stack' = SetTop(ReportError([Cur EXCEPT !.excMsg = r.excMsg],
                                                   "finally"))
                    /\ UNCHANGED <<applyVisible, stopVisible, applyEnabled,
                                   selectorEnabled, uploadEnabled>>
               ELSE IF inputVolume = None
               THEN /\ SetApplyVisible(TRUE, seg)
                    /\ stack' = SetTop([Cur EXCEPT !.loaded = TRUE, !.threw = TRUE,
                                           !.excMsg = <<"no current volume">>, !.pc = "ret"])
               ELSE /\ stack' = SetTop(ReportFinished([Cur EXCEPT !.loaded = TRUE],
                                                      "finally"))
                    /\ UNCHANGED <<applyVisible, stopVisible, applyEnabled,
                                   selectorEnabled, uploadEnabled>>
    /\ ret' = NoFrame
    /\ UNCHANGED <<apiBaseUrl, currentVolumeNode, currentFileId, outFile, everFinished,
                   env, useApi, paramApiUrl, inputVolume, logic, isStopping>>

\* line 315: finally: self._setApplyVisible(True)
FinishedFinally ==
    /\ Running("onInferenceFinished", "finally")
    /\ SetApplyVisible(TRUE, currentSegmentationNode)
    /\ stack' = SetTop([Cur EXCEPT !.pc = "ret"])
    /\ ret' = NoFrame
    /\ UNCHANGED <<logicVars, env, useApi, paramApiUrl, inputVolume, logic,
                   isStopping>>

\* ------------------------------------------------------ onInferenceError
\* lines 317-324
ErrorEntry ==
    /\ Running("onInferenceError", "entry")
    /\ IF StopGuard
       THEN /\ stack' = SetTop([Cur EXCEPT !.pc = "ret"])
            /\ UNCHANGED <<applyVisible, stopVisible, applyEnabled, selectorEnabled,
                           uploadEnabled>>
       ELSE /\ SetApplyVisible(TRUE, currentSegmentationNode)
            /\ stack' = SetTop(ReportError(Cur, "ret"))
    /\ ret' = NoFrame
    /\ UNCHANGED <<logicVars, env, useApi, paramApiUrl, inputVolume, logic,
                   isStopping>>

\* ------------------------------------------------------- onUploadClicked
\* lines 185-198; the frame keeps the segmentation and the URL it examined
UploadClickedEntry ==
    /\ Running("onUploadClicked", "entry")
    /\ LET f == [Cur EXCEPT !.seg = currentSegmentationNode, !.url = paramApiUrl]
       IN  IF currentSegmentationNode = NoSeg \/ paramApiUrl = <<>>
           THEN /\ stack' = SetTop(ReportError(f, "ret"))
                /\ UNCHANGED apiBaseUrl
           ELSE /\ apiBaseUrl' = SetApiUrl(paramApiUrl)
                /\ stack' = SetTop(Pump(f, "call"))
    /\ ret' = NoFrame
    /\ UNCHANGED <<currentVolumeNode, currentFileId, currentSegmentationNode, outFile,
                   everFinished, provenance, widgetVars, env>>

\* line 199: self.apiLogic.uploadSegmentation(currentSegmentation)
UploadClickedCall ==
    /\ Running("onUploadClicked", "call")
    /\ stack' = SetTopAndCall([Cur EXCEPT !.pc = "report"], UploadFrame(Top.seg))
    /\ ret' = NoFrame
    /\ UNCHANGED <<logicVars, widgetVars, env>>

\* lines 200-203
UploadClickedReport ==
    /\ Running("onUploadClicked", "report")
    /\ stack' = IF Top.result THEN SetTop(ReportFinished(Cur, "ret"))
                ELSE SetTop(ReportError(Cur, "ret"))
    /\ ret' = NoFrame
    /\ UNCHANGED <<logicVars, widgetVars, env>>

\* ------------------------------------------------------------ the program
\* Widget.__init__ (lines 38-108) over a fresh ApiSegmentationLogic
Init ==
    /\ InitLogicState
    /\ InitWidgetState
    /\ connected = TRUE
    /\ pumped = 0

Next ==
    \/ EvApplyClicked
    \/ EvStopClicked
    \/ EvSceneClosed
    \/ EvInputChanged
    \/ EvApiUrlEdited
    \/ EvModeToggled
    \/ EvUploadClicked
    \/ ApplyEntry
    \/ ApplyMode
    \/ ApplyInstalled
    \/ StopEntry
    \/ StopFinish
    \/ FinishedEntry
    \/ FinishedLoad
    \/ FinishedFinally
    \/ ErrorEntry
    \/ UploadClickedEntry
    \/ UploadClickedCall
    \/ UploadClickedReport
    \/ StartEntry
    \/ StartExport
    \/ StartPost
    \/ StartWrite
    \/ StartFinish
    \/ StartExcept
    \/ UploadEntry
    \/ UploadExport
    \/ UploadPost
    \/ UploadExcept
    \/ Return

Spec == Init /\ [][Next]_vars


\* ================================================================ claims
\* ret is the frame of the call that returned in the last step: its counters
\* are the signals raised and requests sent by that call, its pre field the
\* logic's state when the call began.
Returned(proc) == ret.proc = proc

AllSlashes(u) == \A i \in 1..Len(u) : u[i] = "/"
NoTrailingSlash(u) == IF Len(u) = 0 THEN TRUE ELSE u[Len(u)] # "/"
EndsWithSlash(u) == IF Len(u) = 0 THEN FALSE ELSE u[Len(u)] = "/"
\* no "/" right before the "/" that starts the token named last
NoDoubleSlashBefore(url, token) ==
    \A i \in 1..Len(url) :
        (url[i] = token /\ i > 2) => ~(url[i - 1] = "/" /\ url[i - 2] = "/")

\* C1: startSegmentation with an empty base URL (never set, or set from a
\* string of slashes only, which setApiUrl stores as the empty string) sends
\* no HTTP request, raises the error signal exactly once, never the finished
\* signal, and returns without raising.
C1_NoUrlStartReportsOnce ==
    /\ (Returned("setApiUrl") /\ AllSlashes(ret.url)) => apiBaseUrl = <<>>
    /\ (Returned("startSegmentation") /\ ret.pre.base = <<>>) =>
          /\ ret.nHttp = 0
          /\ ret.nErr = 1
          /\ ret.errMsg = MsgNotConfigured
          /\ ret.nFin = 0
          /\ ~ret.threw

C1_Witness ==
    /\ Returned("startSegmentation")
    /\ ret.pre.base = <<>>
    /\ ret.nErr = 1
    /\ ret.vol \in Volumes

\* the predict call that returned was answered 200 with an X-File-ID header
Answered200WithId ==
    /\ Returned("startSegmentation")
    /\ ret.resp.status = 200
    /\ ret.resp.header \in FileIds

\* what C2 promises after such a call
C2_Outcome ==
    /\ outFile = ret.resp.body
    /\ currentFileId = ret.resp.header
    /\ GetUploadUrl(currentFileId)
         = apiBaseUrl \o <<"/", "upload_correction", "/", ret.resp.header>>
    /\ ret.nFin = 1
    /\ ret.nErr = 0

\* C2 as stated, for the calls in which the output file could be created and
\* written: every predict call answered 200 with header id and body B leaves
\* the output file with contents B and the job id id, with the finished signal
\* raised exactly once and the error signal not raised during the call.
C2_Answer200Stored ==
    (Answered200WithId /\ ret.excMsg \notin {<<"open failed">>, <<"write failed">>})
        => C2_Outcome

\* the predict call that returned was answered with a status other than 200
AnsweredNot200 ==
    /\ Returned("startSegmentation")
    /\ ret.resp # NoResp
    /\ ret.resp.status # 200

\* C3: a predict answer whose status is not 200 raises the error signal exactly
\* once, with the status code and the body text in the message, never the
\* finished signal, and leaves the output file as it was.
C3_Non200ReportsAndKeepsFile ==
    AnsweredNot200 =>
        /\ ret.nErr = 1
        /\ Contains(ret.errMsg, StatusText(ret.resp.status))
        /\ Contains(ret.errMsg, ret.resp.body)
        /\ ret.nFin = 0
        /\ outFile = ret.pre.file

C3_Witness ==
    /\ AnsweredNot200
    /\ ret.resp.status = 201
    /\ ret.pre.file # NoFile
    /\ ret.pre.file # ret.resp.body

\* C4 as stated: uploadSegmentation, when no startSegmentation of this logic
\* has completed successfully, sends no HTTP request and returns false.
C4_NoUploadBeforeSuccess ==
    (Returned("uploadSegmentation") /\ ~everFinished) =>
        (ret.nHttp = 0 /\ ~ret.result)

\* some step of the predict call that returned raised an exception
StepFailed ==
    /\ Returned("startSegmentation")
    /\ ret.pre.base # <<>>
    /\ ret.excMsg # NoMsg

\* C7: with a URL configured, whichever step of startSegmentation fails (the
\* export, the request, the creation or writing of the output file), the call
\* returns normally, with the error signal raised exactly once and the
\* finished signal not raised.
C7_FailureReportedOnce ==
    StepFailed =>
        /\ ~ret.threw
        /\ ret.nErr = 1
        /\ ret.errMsg = MsgCommError(ret.excMsg[1])
        /\ ret.nFin = 0

C7_Witness ==
    /\ StepFailed
    /\ ret.excMsg = <<"write failed">>
    /\ ret.resp.status = 200

\* C8: uploadSegmentation never raises; it returns true exactly when it sent
\* one POST to {base}/upload_correction/{fileId} that was answered 200, and in
\* every other case returns false with the error signal raised exactly once.
C8_UploadResult ==
    Returned("uploadSegmentation") =>
        /\ ~ret.threw
        /\ ret.result <=>
             /\ ret.nHttp = 1
             /\ ret.resp.status = 200
             /\ ret.url = ret.pre.base \o <<"/", "upload_correction", "/", ret.pre.fileId>>
             /\ ret.pre.base # <<>>
             /\ ret.pre.fileId # None
        /\ ~ret.result => ret.nErr = 1
        /\ ret.result => ret.nErr = 0

C8_Witness ==
    /\ Returned("uploadSegmentation")
    /\ ret.result
    /\ ret.nHttp = 1

\* C9 as stated: loadSegmentation, when no startSegmentation of this logic has
\* completed successfully, raises, its message says the segmentation file was
\* not found, and the current segmentation is left as it was.
C9_LoadBeforeSuccessRaises ==
    (Returned("loadSegmentation") /\ ~everFinished) =>
        /\ ret.threw
        /\ Contains(ret.excMsg, MsgFileNotFound)
        /\ currentSegmentationNode = ret.pre.seg

\* C10: after setApiUrl(u) with u ending in slashes the stored base is u
\* without its trailing slashes, and the predict and upload URLs are that base
\* followed by "/predict" and "/upload_correction/<id>", with no double slash
\* before either.  (The stored base never ends in a slash in any state.)
C10_TrailingSlashesStripped ==
    /\ NoTrailingSlash(apiBaseUrl)
    /\ (Returned("setApiUrl") /\ EndsWithSlash(ret.url)) =>
          /\ Len(apiBaseUrl) < Len(ret.url)
          /\ apiBaseUrl = SubSeq(ret.url, 1, Len(apiBaseUrl))
          /\ \A i \in (Len(apiBaseUrl) + 1)..Len(ret.url) : ret.url[i] = "/"
          /\ Len(GetPredictUrl) = Len(apiBaseUrl) + 2
          /\ NoDoubleSlashBefore(GetPredictUrl, "predict")
          /\ \A id \in FileIds :
                /\ GetUploadUrl(id)[Len(apiBaseUrl) + 2] = "upload_correction"
                /\ GetUploadUrl(id)[Len(GetUploadUrl(id))] = id
                /\ NoDoubleSlashBefore(GetUploadUrl(id), "upload_correction")

C10_Witness ==
    /\ Returned("setApiUrl")
    /\ Len(ret.url) - Len(apiBaseUrl) >= 2
    /\ apiBaseUrl # <<>>


\* C5: a finished signal delivered while isStopping is set neither loads the
\* result nor reports anything, and when onStopClicked returns the apply button
\* is visible, the stop button hidden and isStopping cleared.
C5_FinishDuringStopIgnored ==
    /\ (Returned("onInferenceFinished") /\ ret.wasStopping) =>
          /\ ~ret.loaded
          /\ ret.nRepFin = 0
          /\ ret.nRepErr = 0
    /\ Returned("onStopClicked") =>
          /\ applyVisible
          /\ ~stopVisible
          /\ ~isStopping

\* a stop has returned during which a finished signal was delivered
C5_Witness ==
    /\ Returned("onStopClicked")
    /\ ret.sawFinish
    /\ applyVisible

\* a handler of the finished or error signal has just returned to the
\* startSegmentation call that raised the signal, and the user had clicked Stop
\* during one of that call's progress pumps before its request was sent
SignalAfterStopClick ==
    IF Depth = 0 THEN FALSE
    ELSE /\ ret.proc \in {"onInferenceFinished", "onInferenceError"}
         /\ Top.proc = "startSegmentation"
         /\ ~Top.pumping
         /\ Top.stopReq

\* C6 as stated: when the user clicks Stop during a progress pump of an API
\* startSegmentation, before its blocking request, the finished or error signal
\* that the request raises afterwards loads no result and shows no report.
C6_StopSuppressesLaterSignal ==
    SignalAfterStopClick =>
        /\ ~ret.loaded
        /\ ret.nRepFin = 0
        /\ ret.nRepErr = 0


\* an API run in flight: a startSegmentation call on the stack that has raised
\* neither the finished nor the error signal yet
InFlight(f) ==
    /\ f.proc = "startSegmentation"
    /\ f.pc # "ret"
    /\ f.nFin = 0
    /\ f.nErr = 0
RunsInFlight == {i \in 1..Depth : InFlight(stack[i])}

\* C11 as stated: at most one run is in flight, and while one is, the apply,
\* install, input-selector and upload controls are disabled.
C11_OneRunControlsDisabled ==
    /\ Cardinality(RunsInFlight) <= 1
    /\ RunsInFlight # {} =>
          /\ ~applyEnabled
          /\ ~selectorEnabled
          /\ ~uploadEnabled


\* the predict call that returned was answered 200 without an X-File-ID header
Answered200NoId ==
    /\ Returned("startSegmentation")
    /\ ret.resp.status = 200
    /\ ret.resp.header = None

\* C12 as stated, for the calls in which the output file could be created and
\* written: a predict call answered 200 without X-File-ID writes the output
\* file, raises the finished signal once and no error signal, and leaves no job
\* id, so that the next uploadSegmentation is refused with the 'no file id'
\* error before any request.
C12_NoHeaderStillFinishes ==
    /\ (Answered200NoId /\ ret.excMsg \notin {<<"open failed">>, <<"write failed">>}) =>
          /\ outFile = ret.resp.body
          /\ ret.nFin = 1
          /\ ret.nErr = 0
          /\ currentFileId = None
    /\ (Returned("uploadSegmentation") /\ apiBaseUrl # <<>> /\ currentFileId = None) =>
          /\ ~ret.result
          /\ ret.nHttp = 0
          /\ ret.nErr = 1
          /\ ret.errMsg = MsgNoFileId


\* C13 as stated: when an onApply that called the API logic's startSegmentation
\* returns, the apply button is visible and enabled, the stop button hidden and
\* isStopping false.
C13_ApplyEndsIdle ==
    (Returned("onApply") /\ ret.validated) =>
        /\ applyVisible
        /\ applyEnabled
        /\ ~stopVisible
        /\ ~isStopping


\* C14 as stated: a startSegmentation call that ends with the error signal
\* (and without the finished signal) leaves the stored job id, the stored
\* volume reference and the output file as they were before the call.
C14_FailedStartKeepsJobState ==
    (Returned("startSegmentation") /\ ret.nErr > 0 /\ ret.nFin = 0) =>
        /\ currentFileId = ret.pre.fileId
        /\ currentVolumeNode = ret.pre.vol
        /\ outFile = ret.pre.file


\* the API logic's startSegmentation has just been called by onApply
ApplyCalledStart ==
    IF Depth < 2 THEN FALSE
    ELSE /\ Top.proc = "startSegmentation"
         /\ Top.pc = "entry"
         /\ stack[Depth - 1].proc = "onApply"

\* C15 as stated (its first part): when onApply calls startSegmentation an
\* input volume is selected, and it is the volume passed.
C15_NoStartWithoutInput ==
    ApplyCalledStart =>
        /\ inputVolume # None
        /\ Top.vol # None

\* C16: in every state the widget's active logic is the API logic exactly when
\* useApi is true and the local logic exactly when it is false, so that the
\* API logic's startSegmentation is called by onApply only in API mode.
C16_LogicFollowsMode ==
    /\ useApi <=> logic = "api"
    /\ ~useApi <=> logic = "local"
    /\ ApplyCalledStart => useApi

\* the API logic has just been started by onApply after a toggle to API mode
C16_Witness ==
    /\ ApplyCalledStart
    /\ useApi
    /\ logic = "api"


\* C17: in every state the upload button is enabled only in API mode with a
\* current segmentation held by the API logic; and an onUploadClicked that
\* found no current segmentation or an empty API URL reports one error and
\* sends no request, so that a request is sent only with both present.
C17_UploadOnlyWithSegmentation ==
    /\ uploadEnabled => (useApi /\ currentSegmentationNode # NoSeg)
    /\ Returned("onUploadClicked") =>
          /\ (ret.seg = NoSeg \/ ret.url = <<>>) =>
                (ret.nRepErr = 1 /\ ret.nRepFin = 0 /\ ret.nHttp = 0)
          /\ ret.nHttp > 0 => (ret.seg # NoSeg /\ ret.url # <<>>)

\* an upload clicked with the button enabled has sent its request
C17_Witness ==
    /\ Returned("onUploadClicked")
    /\ ret.nHttp = 1
    /\ ret.result
    /\ uploadEnabled

\* C18: whenever uploadSegmentation sends a request carrying the
\* original_volume_name field, the volume it names is the volume of the
\* startSegmentation call that stored the job id of the upload URL.
C18_UploadNamesVolumeOfJob ==
    (Returned("uploadSegmentation") /\ ret.nHttp > 0 /\ ret.vol # None) =>
        ret.vol = provenance.idVolume

\* onInferenceFinished, called by a startSegmentation of the API logic outside
\* a stop, is about to load the result (line 309)
LoadsAfterApiRun ==
    IF Depth < 2 THEN FALSE
    ELSE Top.proc = "onInferenceFinished" /\ Top.pc = "load" /\ ~Top.wasStopping
         /\ stack[Depth - 1].proc = "startSegmentation"

\* C19: when the finished signal of a run reaches the widget outside a stop,
\* the result is loaded from the logic that ran the segmentation (here the
\* API logic), whatever the mode radio button says by then.
C19_LoadsFromRunningLogic == LoadsAfterApiRun => logic = "api"

\* uploadSegmentation, called by onUploadClicked with the API logic's current
\* segmentation while no other call is in progress, is about to post it to the
\* upload URL of the stored job id (line 147)
WidgetUploadPosts ==
    IF Depth # 2 THEN FALSE
    ELSE Top.proc = "uploadSegmentation" /\ Top.pc = "post"
         /\ stack[1].proc = "onUploadClicked"
         /\ Top.seg = currentSegmentationNode
         /\ Top.url = GetUploadUrl(currentFileId)

\* C20: the segmentation onUploadClicked uploads was loaded from the output
\* of the startSegmentation call that stored the job id of the upload URL.
C20_UploadsSegmentationOfJob == WidgetUploadPosts => provenance.segOfId

\* onInferenceError is running as the handler of an errorOccurred signal that
\* uploadSegmentation raised while onUploadClicked, clicked with no other
\* call in progress, was calling it
UploadErrorHandled ==
    IF Depth # 3 THEN FALSE
    ELSE Top.proc = "onInferenceError"
         /\ stack[2].proc = "uploadSegmentation"
         /\ stack[1].proc = "onUploadClicked"

\* C21: each onUploadClicked produces exactly one user-facing report: the
\* handler itself reports once when it returns (one success report or one
\* error report), and no signal handler run inside its uploadSegmentation
\* call adds a report of its own.
C21_UploadReportsOnce ==
    /\ Returned("onUploadClicked") => ret.nRepErr + ret.nRepFin = 1
    /\ UploadErrorHandled => Top.nRepErr = 0
====
